---------------------------- MODULE Spec2Model ----------------------------
(***************************************************************************)
(* Model of the albert launcher plugins "bookmarks" (src/unnamed/part_000) *)
(* and "files" (src/files/src/plugin.cpp).                                 *)
(*                                                                         *)
(*   Spec       the bookmarks plugin: construction, the configuration      *)
(*              surface, the background parse and its completion.          *)
(*   SpecParse  parseBookmarks as a function of a list of files and of the *)
(*              abort flag, run file by file.                              *)
(*   SpecFiles  the files plugin: startup loading, changes of the indexed  *)
(*              paths, shutdown persistence step by step.                  *)
(***************************************************************************)
EXTENDS Integers, Sequences, FiniteSets, TLC

VARIABLES
    \* ---- the file system the bookmark parser reads
    fs,                 \* path -> [readable, json]: each file's content
    \* ---- parseBookmarks running on the background worker
    w_pc,               \* "idle" | "check" | "open" | "returned" | "crashed"
    w_paths,            \* the list the range-for iterates (begin/end taken at loop entry)
    w_i,                \* position of the loop in w_paths
    w_raced,            \* paths_ was modified by the main thread during the loop
    results,            \* the local vector `results`
    abort,              \* the bool behind `const bool &abort`
    w_ret,              \* the value parseBookmarks returned
    \* ---- the bookmarks plugin
    pc,                 \* "start" before the constructor, then "up"; "crashed"
    settings,           \* the settings store: key -> [present, value]
    s0,                 \* the settings store as the constructor found it
    discovered,         \* the files named Bookmarks under the probed directories
    paths_,
    index_hostname_,
    bookmarks_,
    index,              \* what the last updateIndex() handed to the host
    status,             \* the last statusChanged message: [present, n]
    file_system_watcher_,   \* the files the watcher watches
    ops,                \* the clicks on the configuration surface so far
    \* ---- the files plugin
    f_pc,               \* "down", "up", then the steps of the destructor
    f_settings,         \* the settings store: [paths, groups]
    cache,              \* the cache file file_index.json: [state, doc]
    fs_index_,          \* FsIndex::indexPaths(): root -> Indexed Path
    scan,               \* the roots whose scan of the current batch is running
    catalog,            \* the roots whose entries updateIndex() published last
    f_saved,            \* the Indexed Paths the last complete shutdown persisted
    f_ops,              \* changes of the indexed paths so far
    f_runs,             \* startups so far
    f_live              \* FsIndexPath objects allocated and not deleted

parseVars == <<fs, w_pc, w_paths, w_i, w_raced, results, abort, w_ret>>
bmVars == <<pc, settings, s0, discovered, paths_, index_hostname_, bookmarks_,
            index, status, file_system_watcher_, ops>>

flVars == <<f_pc, f_settings, cache, fs_index_, scan, catalog, f_saved, f_ops,
            f_runs, f_live>>

vars == <<parseVars, bmVars, flVars>>

-----------------------------------------------------------------------------
(* Bounds *)

MaxFiles == 3       \* length of the path list handed to parseBookmarks
MaxChildren == 2    \* children per generated folder node

SeqUpTo(S, n) == UNION {[1..k -> S] : k \in 0..n}

RECURSIVE ConcatAll(_)
ConcatAll(ss) == IF ss = <<>> THEN <<>> ELSE Head(ss) \o ConcatAll(Tail(ss))

-----------------------------------------------------------------------------
(* JSON.  A file's text is modelled by its syntax tree, members and        *)
(* elements in the order they are written.                                 *)

Str(s) == [kind |-> "str", s |-> s]
Arr(items) == [kind |-> "arr", items |-> items]
Obj(members) == [kind |-> "obj", members |-> members]
Mem(k, v) == [k |-> k, v |-> v]
Null == [kind |-> "null"]
Undefined == [kind |-> "undefined"]
EmptyObject == Obj(<<>>)

\* Every key of the universe, in the lexicographic order of QString.
LexKeys == <<"bookmark_bar", "children", "guid", "name", "other", "roots",
             "synced", "type", "url">>

HasKey(members, k) == \E i \in 1..Len(members) : members[i].k = k

\* With a key written twice the later member wins.
LastWith(members, k) ==
    members[CHOOSE i \in 1..Len(members) :
                /\ members[i].k = k
                /\ \A j \in (i+1)..Len(members) : members[j].k # k]

RECURSIVE SortFrom(_, _)
SortFrom(members, n) ==
    IF n > Len(LexKeys) THEN <<>>
    ELSE (IF HasKey(members, LexKeys[n])
          THEN <<LastWith(members, LexKeys[n])>> ELSE <<>>)
         \o SortFrom(members, n + 1)

\* QJsonObject keeps its members sorted by key.
SortMembers(members) == SortFrom(members, 1)

\* QJsonDocument::fromJson: the tree with every object's members sorted.
RECURSIVE fromJsonValue(_)
fromJsonValue(v) ==
    IF v.kind = "obj"
    THEN Obj(SortMembers([i \in 1..Len(v.members) |->
                Mem(v.members[i].k, fromJsonValue(v.members[i].v))]))
    ELSE IF v.kind = "arr"
    THEN Arr([i \in 1..Len(v.items) |-> fromJsonValue(v.items[i])])
    ELSE v

\* A document is an object or an array; anything else does not parse and
\* gives the null document.
fromJson(text) ==
    IF text.kind \in {"obj", "arr"} THEN fromJsonValue(text) ELSE Null

\* QJsonDocument::object(), QJsonValue::toObject()
toObject(v) == IF v.kind = "obj" THEN v ELSE EmptyObject
\* QJsonValue::toArray()
toArray(v) == IF v.kind = "arr" THEN v.items ELSE <<>>
\* QJsonValue::toString()
toString(v) == IF v.kind = "str" THEN v.s ELSE ""
\* QJsonObject::value(key), QJsonObject::operator[](key) const
Value(obj, key) ==
    IF HasKey(obj.members, key) THEN LastWith(obj.members, key).v ELSE Undefined

-----------------------------------------------------------------------------
(* parseBookmarks *)

BookmarkItem(i, n, u) == [id_ |-> i, name_ |-> n, url_ |-> u]

RECURSIVE recursiveJsonTreeWalker(_, _)
RECURSIVE WalkChildren(_, _, _)

\* The walker without the test for "folder": it descends into the children
\* of a node of any type.
recursiveJsonTreeWalker_AnyType(json, items) ==
    LET type == Value(json, "type") IN
    IF type.kind # "undefined"
    THEN IF toString(type) = "url"
         THEN Append(items, BookmarkItem(toString(Value(json, "guid")),
                                         toString(Value(json, "name")),
                                         toString(Value(json, "url"))))
         ELSE WalkChildren(toArray(Value(json, "children")), 1, items)
    ELSE items

WalkChildren(children, n, items) ==
    IF n > Len(children) THEN items
    ELSE WalkChildren(children, n + 1,
                      recursiveJsonTreeWalker(toObject(children[n]), items))

recursiveJsonTreeWalker(json, items) ==
    LET type == Value(json, "type") IN
    IF type.kind # "undefined"
    THEN IF toString(type) = "folder"
         THEN WalkChildren(toArray(Value(json, "children")), 1, items)
         ELSE IF toString(type) = "url"
         THEN Append(items, BookmarkItem(toString(Value(json, "guid")),
                                         toString(Value(json, "name")),
                                         toString(Value(json, "url"))))
         ELSE items
    ELSE items

RECURSIVE WalkRoots(_, _, _)
WalkRoots(roots, n, items) ==
    IF n > Len(roots) THEN items
    ELSE WalkRoots(roots, n + 1,
                   IF roots[n].v.kind = "obj"
                   THEN recursiveJsonTreeWalker(toObject(roots[n].v), items)
                   ELSE items)

\* Lines 74-76: the loop over the values of the document's "roots" object.
ReadRoots(text, items) ==
    WalkRoots(toObject(Value(toObject(fromJson(text)), "roots")).members, 1, items)


-----------------------------------------------------------------------------
(* The bookmark files of the model *)

AllPaths == <<"/a/Bookmarks", "/b/Bookmarks", "/c/Bookmarks", "/d/Bookmarks",
              "/e/Bookmarks">>
PathSet == {AllPaths[i] : i \in 1..Len(AllPaths)}

UrlNode(g, n, u) ==
    Obj(<<Mem("type", Str("url")), Mem("guid", Str(g)), Mem("name", Str(n)),
          Mem("url", Str(u))>>)
FolderNode(cs) == Obj(<<Mem("type", Str("folder")), Mem("children", Arr(cs))>>)
Document(roots) == Obj(<<Mem("roots", Obj(roots))>>)

U1 == UrlNode("g1", "Example", "http://example.com")
U2 == UrlNode("g2", "Wiki", "https://EN.wikipedia.org/wiki/TLA")
U3 == UrlNode("g3", "Local", "file:///home/u/notes.html")
\* a node of another type, and a node of no type, each with a child
SeparatorNode == Obj(<<Mem("type", Str("separator")), Mem("children", Arr(<<U1>>))>>)
UntypedNode == Obj(<<Mem("children", Arr(<<U2>>)), Mem("name", Str("x"))>>)
\* a node whose type is no string
NullTypeNode == Obj(<<Mem("type", Null), Mem("guid", Str("g9"))>>)

\* A file's text is named by a short code, which TextOf spells out:
\*   [roots |-> <<[k |-> key, n |-> node], ...>>]   a document with these roots
\*   [odd |-> ...]                                  another text
\*   node = [folder |-> <<child, ...>>] or [leaf |-> ...]; child = a name below
ChildCodes == {"U1", "U3", "Sep", "F2"}
LeafCodes == {"U3", "Untyped", "NullType", "Str"}

ChildOf(c) ==
    IF c = "U1" THEN U1
    ELSE IF c = "U3" THEN U3
    ELSE IF c = "Sep" THEN SeparatorNode
    ELSE FolderNode(<<U2>>)

LeafOf(c) ==
    IF c = "U3" THEN U3
    ELSE IF c = "Untyped" THEN UntypedNode
    ELSE IF c = "NullType" THEN NullTypeNode
    ELSE Str("x")

NodeOf(nc) ==
    IF "folder" \in DOMAIN nc
    THEN FolderNode([i \in 1..Len(nc.folder) |-> ChildOf(nc.folder[i])])
    ELSE LeafOf(nc.leaf)

TextOf(dc) ==
    IF "roots" \in DOMAIN dc
    THEN Document([i \in 1..Len(dc.roots) |-> Mem(dc.roots[i].k, NodeOf(dc.roots[i].n))])
    ELSE IF dc.odd = "roots is an array" THEN Obj(<<Mem("roots", Arr(<<U1>>))>>)
    ELSE IF dc.odd = "an array" THEN Arr(<<U1>>)
    ELSE Str("x")

Root(k, n) == [k |-> k, n |-> n]
Folder(cs) == [folder |-> cs]

\* The document of the specification's example.
ExampleDoc == [roots |-> <<Root("bookmark_bar", Folder(<<"U1">>))>>]
\* Two roots, written in descending key order, one with a nested folder.
TwoRootsDoc == [roots |-> <<Root("other", Folder(<<"U1">>)),
                            Root("bookmark_bar", Folder(<<"U3", "F2">>))>>]
EmptyDoc == [roots |-> <<>>]

RootNodes == {Folder(cs) : cs \in SeqUpTo(ChildCodes, MaxChildren)}
             \cup {[leaf |-> c] : c \in LeafCodes}
RootKeys == {"bookmark_bar", "other"}

\* Documents of one or two roots, in either order of the keys; a document
\* whose "roots" is no object; texts that are no object.
RichDocs ==
    {[roots |-> <<Root(k, n)>>] : k \in RootKeys, n \in RootNodes}
    \cup {[roots |-> <<Root(k[1], n), Root(k[2], m)>>] :
            k \in {<<"bookmark_bar", "other">>, <<"other", "bookmark_bar">>},
            n \in RootNodes, m \in RootNodes}
    \cup {EmptyDoc}
    \cup {[odd |-> o] : o \in {"roots is an array", "an array", "a string"}}

File(text) == [readable |-> TRUE, json |-> text]
Unreadable == [readable |-> FALSE, json |-> [odd |-> "none"]]
SimpleContents == {Unreadable, File(ExampleDoc), File(TwoRootsDoc), File(EmptyDoc)}

Readable(path) == path \in DOMAIN fs /\ fs[path].readable

\* A failed open that drops what the earlier files gave.
ReadFile_FailureClears(path, items) ==
    IF Readable(path) THEN ReadRoots(TextOf(fs[path].json), items) ELSE <<>>

\* lines 73-80: the body of the loop for one path
ReadFile(path, items) ==
    IF Readable(path) THEN ReadRoots(TextOf(fs[path].json), items) ELSE items

\* lines 70-82 with the flag never set: the items of every file, in order
RECURSIVE ParseFrom(_, _, _)
ParseFrom(paths, n, items) ==
    IF n > Len(paths) THEN items
    ELSE ParseFrom(paths, n + 1, ReadFile(paths[n], items))

-----------------------------------------------------------------------------
(* The settings store and the status message *)

\* The files plugin's variables where the files plugin is not the subject.
FilesUnused ==
    /\ f_pc = "unused"
    /\ f_settings = <<>>
    /\ cache = <<>>
    /\ fs_index_ = <<>>
    /\ scan = {}
    /\ catalog = {}
    /\ f_saved = <<>>
    /\ f_ops = 0
    /\ f_runs = 0
    /\ f_live = 0

Absent == [present |-> FALSE]
Stored(v) == [present |-> TRUE, value |-> v]
NoSettings == [bookmarks_path |-> Absent, indexHostname |-> Absent]
NoStatus == [present |-> FALSE, n |-> 0]

DEF_INDEX_HOSTNAME == FALSE

\* QSettings::contains(key), QSettings::value(key, default)
contains(s, key) == s[key].present
value(s, key, def) == IF s[key].present THEN s[key].value ELSE def

-----------------------------------------------------------------------------
(* parseBookmarks, one step per statement of the loop over the paths *)

\* What `path` reads as.  While the main thread leaves paths_ alone it is the
\* element the iterator points at.  Once the main thread has modified paths_
\* during the loop the iterator points into a buffer the list no longer owns:
\* the read may give the old element, any other string, or fault.
PathReads ==
    IF w_raced
    THEN {w_paths[w_i], "<garbage>", "<fault>"}
         \cup (IF w_i <= Len(paths_) THEN {paths_[w_i]} ELSE {})
    ELSE {w_paths[w_i]}

\* The abort check that returns what was parsed so far.
W_check_ReturnsPartial ==
    /\ pc # "crashed"
    /\ w_pc = "check"
    /\ IF w_i > Len(w_paths) \/ abort
       THEN w_pc' = "returned" /\ w_ret' = results
       ELSE w_pc' = "open" /\ w_ret' = w_ret
    /\ UNCHANGED <<fs, w_paths, w_i, w_raced, results, abort, bmVars, flVars>>

\* line 71 (loop test), line 72 (if (abort) return {}), line 82 (return results)
W_check ==
    /\ pc # "crashed"
    /\ w_pc = "check"
    /\ IF w_i > Len(w_paths)
       THEN w_pc' = "returned" /\ w_ret' = results
       ELSE IF abort
            THEN w_pc' = "returned" /\ w_ret' = <<>>
            ELSE w_pc' = "open" /\ w_ret' = w_ret
    /\ UNCHANGED <<fs, w_paths, w_i, w_raced, results, abort, bmVars, flVars>>

\* lines 73-80: open the file; walk its roots, or warn and go on
W_open ==
    /\ pc # "crashed"
    /\ w_pc = "open"
    /\ \E path \in PathReads :
          IF path = "<fault>"
          THEN /\ w_pc' = "crashed"
               /\ UNCHANGED <<w_i, results>>
          ELSE /\ results' = ReadFile(path, results)
               /\ w_i' = w_i + 1
               /\ w_pc' = "check"
    /\ UNCHANGED <<fs, w_paths, w_raced, abort, w_ret, bmVars, flVars>>

\* The caller of parseBookmarks sets the flag at any moment of the run.
SetAbort ==
    /\ w_pc \in {"check", "open"}
    /\ ~abort
    /\ abort' = TRUE
    /\ UNCHANGED <<fs, w_pc, w_paths, w_i, w_raced, results, w_ret, bmVars, flVars>>

InitParse ==
    /\ \E n \in 0..MaxFiles :
          /\ w_paths = SubSeq(AllPaths, 1, n)
          /\ \/ \E c \in [1..n -> SimpleContents] :
                   fs = [p \in PathSet |->
                           IF \E i \in 1..n : AllPaths[i] = p
                           THEN c[CHOOSE i \in 1..n : AllPaths[i] = p]
                           ELSE Unreadable]
             \/ /\ n = 1
                /\ \E d \in RichDocs :
                      fs = [p \in PathSet |->
                              IF p = AllPaths[1] THEN File(d) ELSE Unreadable]
    /\ w_pc = "check"
    /\ w_i = 1
    /\ w_raced = FALSE
    /\ results = <<>>
    /\ abort = FALSE
    /\ w_ret = <<>>
    /\ pc = "harness"
    /\ settings = NoSettings
    /\ s0 = NoSettings
    /\ discovered = <<>>
    /\ paths_ = <<>>
    /\ index_hostname_ = FALSE
    /\ bookmarks_ = <<>>
    /\ index = <<>>
    /\ status = NoStatus
    /\ file_system_watcher_ = {}
    /\ ops = 0
    /\ FilesUnused

NextParse == W_check \/ W_open \/ SetAbort

SpecParse == InitParse /\ [][NextParse]_vars


-----------------------------------------------------------------------------
(* The bookmarks plugin *)

MaxPaths == 2       \* the files the user can pick in the file dialog
MaxOps == 3         \* clicks on the configuration surface in one run of the plugin

UserPaths == {AllPaths[i] : i \in 1..MaxPaths}
Range(seq) == {seq[i] : i \in 1..Len(seq)}

\* The files of the plugin's runs: an example file, a file of two roots, the
\* others unreadable.
PluginFs ==
    [p \in PathSet |->
        IF p = AllPaths[1] THEN File(ExampleDoc)
        ELSE IF p = AllPaths[2] THEN File(TwoRootsDoc)
        ELSE Unreadable]

\* QUrl(url).host(): the authority's host in lower case, empty without one.
QUrlHost(url) ==
    IF url = "http://example.com" THEN "example.com"
    ELSE IF url = "https://EN.wikipedia.org/wiki/TLA" THEN "en.wikipedia.org"
    ELSE ""

\* QStringList::sort(): AllPaths lists the paths in ascending order.
sort(list) ==
    ConcatAll([i \in 1..Len(AllPaths) |->
                  SelectSeq(list, LAMBDA x : x = AllPaths[i])])

IndexItem(item, string) == [item |-> item, string |-> string]

\* indexItems() that adds the hostname entry whatever the flag says.
indexItems_AlwaysHost(bookmarks, index_hostname) ==
    ConcatAll([b \in 1..Len(bookmarks) |->
        <<IndexItem(bookmarks[b], bookmarks[b].name_),
          IndexItem(bookmarks[b], QUrlHost(bookmarks[b].url_))>>])

\* lines 135-144
indexItems(bookmarks, index_hostname) ==
    ConcatAll([b \in 1..Len(bookmarks) |->
        <<IndexItem(bookmarks[b], bookmarks[b].name_)>>
        \o (IF index_hostname
            THEN <<IndexItem(bookmarks[b], QUrlHost(bookmarks[b].url_))>>
            ELSE <<>>)])

Alive == pc = "up" /\ w_pc # "crashed"
InLoop == w_pc \in {"check", "open"}

\* indexer.run(): start the background run, or, while one is in flight, flag
\* it to be aborted and run again.
indexer_run ==
    IF w_pc = "idle"
    THEN w_pc' = "begin" /\ abort' = FALSE
    ELSE w_pc' = w_pc /\ abort' = TRUE

\* lines 88-90 and 70-71: the worker calls parseBookmarks(paths_, abort) and
\* enters the loop over the list as it is then.
W_begin ==
    /\ pc = "up"
    /\ w_pc = "begin"
    /\ w_pc' = "check"
    /\ w_paths' = paths_
    /\ UNCHANGED <<w_i, w_raced, results>>
    /\ UNCHANGED <<fs, abort, w_ret, bmVars, flVars>>

\* lines 86-126: Plugin::Plugin
Construct ==
    /\ pc = "start"
    /\ pc' = "up"
    /\ index_hostname_' = value(settings, "indexHostname", DEF_INDEX_HOSTNAME)
    /\ IF contains(settings, "bookmarks_path")
       THEN /\ paths_' = paths_ \o discovered
            /\ settings' = [settings EXCEPT !.bookmarks_path = Stored(paths_')]
       ELSE /\ paths_' = value(settings, "bookmarks_path", <<>>)
            /\ settings' = settings
    /\ indexer_run
    /\ UNCHANGED <<fs, w_paths, w_i, w_raced, results, w_ret, s0, discovered,
                   bookmarks_, index, status, file_system_watcher_, ops, flVars>>

\* parseBookmarks has returned: its locals are gone.
FrameGone ==
    /\ w_paths' = <<>>
    /\ w_i' = 1
    /\ w_raced' = FALSE
    /\ results' = <<>>

\* The completion handler that republishes before it replaces the list.
finish_PublishFirst(res) ==
    /\ status' = [present |-> TRUE, n |-> Len(bookmarks_)]
    /\ index' = indexItems(bookmarks_, index_hostname_)
    /\ bookmarks_' = res

\* lines 91-97: indexer.finish
finish(res) ==
    /\ status' = [present |-> TRUE, n |-> Len(bookmarks_)]
    /\ bookmarks_' = res
    /\ index' = indexItems(bookmarks_', index_hostname_)

\* The run returned and nothing asked for another: its result is adopted.
IndexerFinish ==
    /\ Alive
    /\ w_pc = "returned"
    /\ ~abort
    /\ finish(w_ret)
    /\ w_pc' = "idle"
    /\ FrameGone
    /\ UNCHANGED <<fs, abort, w_ret, pc, settings, s0, discovered, paths_,
                   index_hostname_, file_system_watcher_, ops, flVars>>

\* The run returned after run() was called again: its result is dropped and
\* the next run starts.
IndexerRerun ==
    /\ Alive
    /\ w_pc = "returned"
    /\ abort
    /\ abort' = FALSE
    /\ w_pc' = "begin"
    /\ FrameGone
    /\ w_ret' = <<>>
    /\ UNCHANGED <<fs, bmVars, flVars>>

\* lines 128-133: Plugin::setPaths
setPaths(paths) ==
    /\ paths_' = sort(paths)
    /\ settings' = [settings EXCEPT !.bookmarks_path = Stored(paths_')]
    /\ index' = indexItems(bookmarks_, index_hostname_)
    /\ w_raced' = (w_raced \/ InLoop)
    /\ UNCHANGED <<fs, w_pc, w_paths, w_i, results, abort, w_ret, pc, s0,
                   discovered, index_hostname_, bookmarks_, status,
                   file_system_watcher_, flVars>>

\* lines 159-163: the indexHostname checkbox toggled
ToggleHostname ==
    /\ Alive
    /\ ops < MaxOps
    /\ LET checked == ~index_hostname_ IN
          /\ settings' = [settings EXCEPT !.indexHostname = Stored(checked)]
          /\ index_hostname_' = checked
    /\ indexer_run
    /\ ops' = ops + 1
    /\ UNCHANGED <<fs, w_paths, w_i, w_raced, results, w_ret, pc, s0,
                   discovered, paths_, bookmarks_, index, status,
                   file_system_watcher_, flVars>>

\* lines 167-176: the add button; "" is the null string of a cancelled dialog
AddClicked ==
    /\ Alive
    /\ ops < MaxOps
    /\ ops' = ops + 1
    /\ \E path \in UserPaths \cup {""} :
          IF path # "" /\ path \notin Range(paths_)
          THEN setPaths(Append(paths_, path))
          ELSE UNCHANGED <<parseVars, pc, settings, s0, discovered, paths_,
                           index_hostname_, bookmarks_, index, status,
                           file_system_watcher_, flVars>>

\* QList::removeAt(i) with i in the list
removeAt(list, i) == SubSeq(list, 1, i) \o SubSeq(list, i + 2, Len(list))

\* lines 178-183: the remove button; row is the selected row, -1 with none.
\* removeAt(-1) does nothing where the list checks its index and is out of
\* bounds where it does not.
RemoveClicked ==
    /\ Alive
    /\ ops < MaxOps
    /\ ops' = ops + 1
    /\ \E row \in -1..(Len(paths_) - 1) :
          IF row >= 0
          THEN setPaths(removeAt(paths_, row))
          ELSE \E outcome \in {"nothing", "fault"} :
                  IF outcome = "nothing"
                  THEN setPaths(paths_)
                  ELSE pc' = "crashed" /\ UNCHANGED <<parseVars, settings, s0,
                          discovered, paths_, index_hostname_, bookmarks_, index,
                          status, file_system_watcher_, flVars>>

\* lines 117-125 without the removePaths of line 119.
fileChanged_KeepsWatches ==
    /\ Alive
    /\ file_system_watcher_ # {}
    /\ file_system_watcher_' =
          file_system_watcher_ \cup {p \in Range(paths_) : Readable(p)}
    /\ status' = [present |-> TRUE, n |-> Len(bookmarks_)]
    /\ indexer_run
    /\ UNCHANGED <<fs, w_paths, w_i, w_raced, results, w_ret, pc, settings,
                   s0, discovered, paths_, index_hostname_, bookmarks_, index,
                   ops, flVars>>

\* lines 117-125: the handler of the watcher's fileChanged signal, which the
\* watcher emits for a file it watches.  QFileSystemWatcher adds the paths
\* that exist.
fileChanged ==
    /\ Alive
    /\ file_system_watcher_ # {}
    /\ file_system_watcher_' = {p \in Range(paths_) : Readable(p)}
    /\ status' = [present |-> TRUE, n |-> Len(bookmarks_)]
    /\ indexer_run
    /\ UNCHANGED <<fs, w_paths, w_i, w_raced, results, w_ret, pc, settings,
                   s0, discovered, paths_, index_hostname_, bookmarks_, index,
                   ops, flVars>>

\* What the settings store may hold when the plugin starts.
InitialSettings ==
    {[bookmarks_path |-> bp, indexHostname |-> ih] :
        bp \in {Absent, Stored(<<>>), Stored(<<AllPaths[2], AllPaths[1]>>)},
        ih \in {Absent, Stored(TRUE)}}

\* What the probe of the browser directories may find.
Discoveries == {<<>>, <<AllPaths[3], AllPaths[1]>>}

Init ==
    /\ fs = PluginFs
    /\ w_pc = "idle"
    /\ w_paths = <<>>
    /\ w_i = 1
    /\ w_raced = FALSE
    /\ results = <<>>
    /\ abort = FALSE
    /\ w_ret = <<>>
    /\ pc = "start"
    /\ settings \in InitialSettings
    /\ s0 = settings
    /\ discovered \in Discoveries
    /\ paths_ = <<>>
    /\ index_hostname_ = FALSE
    /\ bookmarks_ = <<>>
    /\ index = <<>>
    /\ status = NoStatus
    /\ file_system_watcher_ = {}
    /\ ops = 0
    /\ FilesUnused

\* fileChanged is no disjunct of Next: the watcher emits the signal for a
\* file it watches, and only the handler itself ever adds one.
Next ==
    \/ Construct
    \/ W_begin
    \/ W_check
    \/ W_open
    \/ IndexerFinish
    \/ IndexerRerun
    \/ ToggleHostname
    \/ AddClicked
    \/ RemoveClicked

Spec == Init /\ [][Next]_vars

-----------------------------------------------------------------------------
(* The fileChanged handler, as a function of the files the watcher watches, *)
(* of the list of paths and of the files on disk: the plugin is up, no run  *)
(* is in flight, the signal is delivered.                                   *)

\* The lists of source paths the handler is run with.
ChangedLists == SeqUpTo({AllPaths[i] : i \in 1..(MaxPaths + 1)}, MaxPaths)

InitChanged ==
    /\ fs = PluginFs
    /\ w_pc = "idle"
    /\ w_paths = <<>>
    /\ w_i = 1
    /\ w_raced = FALSE
    /\ results = <<>>
    /\ abort = FALSE
    /\ w_ret = <<>>
    /\ pc = "up"
    /\ paths_ \in ChangedLists
    /\ settings = [bookmarks_path |-> Stored(paths_), indexHostname |-> Absent]
    /\ s0 = settings
    /\ discovered = <<>>
    /\ index_hostname_ = FALSE
    /\ bookmarks_ = <<>>
    /\ index = <<>>
    /\ status = NoStatus
    /\ file_system_watcher_ \in (SUBSET {p \in PathSet : Readable(p)}) \ {{}}
    /\ ops = 0
    /\ FilesUnused

NextChanged ==
    \/ fileChanged
    \/ W_begin
    \/ W_check
    \/ W_open
    \/ IndexerFinish
    \/ IndexerRerun

SpecChanged == InitChanged /\ [][NextChanged]_vars

-----------------------------------------------------------------------------
(* The files plugin (src/files/src/plugin.cpp): the settings store          *)

MaxRoots == 2      \* root paths the configuration surface offers
MaxFileOps == 1    \* changes of the indexed paths in one behaviour
MaxRuns == 2       \* startups in one behaviour

CFG_PATHS == "paths"
CFG_MIME_FILTERS == "mimeFilters"
DEF_MIME_FILTERS == <<"inode/directory", "application/*">>
CFG_NAME_FILTERS == "nameFilters"
DEF_NAME_FILTERS == <<".DS_Store">>
CFG_INDEX_HIDDEN == "indexhidden"
DEF_INDEX_HIDDEN == FALSE
CFG_FOLLOW_SYMLINKS == "followSymlinks"
DEF_FOLLOW_SYMLINKS == FALSE
CFG_FS_WATCHES == "useFileSystemWatches"
DEF_FS_WATCHES == FALSE
CFG_MAX_DEPTH == "maxDepth"
DEF_MAX_DEPTH == 100
CFG_SCAN_INTERVAL == "scanInterval"
DEF_SCAN_INTERVAL == 15

\* Root paths, in the order of std::map<QString, ...>.
AllRoots == <<"/", "/home", "/home/docs">>
Roots == {AllRoots[i] : i \in 1..MaxRoots}

\* QSettings::beginGroup(path): the key prefix is the path without its
\* leading slash, split at the slashes ("/" names the top level itself).
normalizedKey(path) ==
    IF path = "/" THEN <<>>
    ELSE IF path = "/home" THEN <<"home">>
    ELSE IF path = "/home/docs" THEN <<"home", "docs">>
    ELSE <<path>>

\* QVariant, as constructed in memory from a bool, an integer, a QStringList.
QVariantBool(b) == [type |-> "bool", v |-> <<b>>]
QVariantUInt(n) == [type |-> "number", v |-> <<n>>]
QVariantList(l) == [type |-> "list", v |-> l]

\* What the store keeps of a QVariant and gives back after a restart: a bool
\* as the string true or false, a number as its digits, an empty list as an
\* invalid variant, a list of one string as that string.
toIni(variant) ==
    IF variant.type = "bool"
    THEN [type |-> "string", v |-> <<IF variant.v[1] THEN "true" ELSE "false">>]
    ELSE IF variant.type = "list" /\ Len(variant.v) = 0
    THEN [type |-> "invalid", v |-> <<>>]
    ELSE IF variant.type = "list" /\ Len(variant.v) = 1
    THEN [type |-> "string", v |-> variant.v]
    ELSE variant

\* QVariant::toBool(): a string is false iff it is empty, "0" or "false".
toBool(variant) ==
    IF variant.type = "bool" THEN variant.v[1]
    ELSE IF variant.type = "string" THEN variant.v[1] \notin {"", "0", "false"}
    ELSE IF variant.type = "number" THEN variant.v[1] # 0
    ELSE FALSE

\* QVariant::toUInt(): 0 for what is no unsigned number (the numbers of the
\* model are below 2^31, which an unsigned int holds as they are).
toUInt(variant) ==
    IF variant.type = "number" THEN (IF variant.v[1] < 0 THEN 0 ELSE variant.v[1])
    ELSE IF variant.type = "bool" THEN (IF variant.v[1] THEN 1 ELSE 0)
    ELSE 0

\* QVariant::toStringList(): a string is the list of that string.
toStringList(variant) ==
    IF variant.type \in {"list", "string"} THEN variant.v ELSE <<>>

\* The store maps a key (its segments) to the variant it keeps.
NoStore == [k \in {} |-> 0]

\* QSettings::setValue under the group of beginGroup(path)
setValue(s, grp, key, variant) ==
    [k \in DOMAIN s \cup {grp \o <<key>>} |->
        IF k = grp \o <<key>> THEN toIni(variant) ELSE s[k]]

\* QSettings::value(key, default) under the group of beginGroup(path)
storeValue(s, grp, key, def) ==
    IF grp \o <<key>> \in DOMAIN s THEN s[grp \o <<key>>] ELSE def

\* conversion of an unsigned int to the uint8_t of maxDepth
toUInt8(n) == n % 256

-----------------------------------------------------------------------------
(* The files plugin: Indexed Paths, the Filesystem Index, the cache file    *)

\* FsIndexPath(path): a fresh Indexed Path with the defaults, nothing scanned
FsIndexPath(path) ==
    [path |-> path,
     nameFilters |-> DEF_NAME_FILTERS,
     mimeFilters |-> DEF_MIME_FILTERS,
     indexHidden |-> DEF_INDEX_HIDDEN,
     followSymlinks |-> DEF_FOLLOW_SYMLINKS,
     maxDepth |-> DEF_MAX_DEPTH,
     scanInterval |-> DEF_SCAN_INTERVAL,
     watchFilesystem |-> DEF_FS_WATCHES,
     entries |-> "none"]

\* FsIndexPath::toJson(): the record of the path and its configuration
toJson(fsp) ==
    [path |-> fsp.path,
     nameFilters |-> fsp.nameFilters,
     mimeFilters |-> fsp.mimeFilters,
     indexHidden |-> fsp.indexHidden,
     followSymlinks |-> fsp.followSymlinks,
     maxDepth |-> fsp.maxDepth,
     scanInterval |-> fsp.scanInterval,
     watchFilesystem |-> fsp.watchFilesystem]

\* FsIndexPath(json): the Indexed Path a cached record describes
FsIndexPathFromJson(json) ==
    [path |-> json.path,
     nameFilters |-> json.nameFilters,
     mimeFilters |-> json.mimeFilters,
     indexHidden |-> json.indexHidden,
     followSymlinks |-> json.followSymlinks,
     maxDepth |-> json.maxDepth,
     scanInterval |-> json.scanInterval,
     watchFilesystem |-> json.watchFilesystem,
     entries |-> "cached"]

NoPaths == [p \in {} |-> 0]

\* FsIndex::addPath(p): inserts unless the root is present
addPath(idx, p) ==
    IF p.path \in DOMAIN idx THEN idx
    ELSE [r \in DOMAIN idx \cup {p.path} |-> IF r = p.path THEN p ELSE idx[r]]

\* FsIndex::removePath(root)
removePath(idx, root) == [r \in DOMAIN idx \ {root} |-> idx[r]]

\* FsIndex::update(): a scan of every root; a call during a batch joins it
update(idx, batch) == batch \cup DOMAIN idx

\* The cache file: missing, a complete document (root -> record), empty
\* (opened for writing, nothing written), or the first part of a document.
Missing == [state |-> "missing", doc |-> NoPaths]
Complete(doc) == [state |-> "complete", doc |-> doc]
Empty == [state |-> "empty", doc |-> NoPaths]
Partial == [state |-> "partial", doc |-> NoPaths]

\* lines 30-32: the object of the cache file; an open that fails and a text
\* that is no JSON document leave it empty
readCache(file) == IF file.state = "complete" THEN file.doc ELSE NoPaths

\* lines 37-50 with line 39 alone: every Indexed Path constructed fresh.
loadPath_Fresh(s, object, path) ==
    LET p == FsIndexPath(path)
        grp == normalizedKey(path)
    IN  [p EXCEPT
            !.maxDepth = toUInt8(toUInt(storeValue(s, grp, CFG_MAX_DEPTH,
                                        QVariantUInt(DEF_MAX_DEPTH)))),
            !.scanInterval = toUInt(storeValue(s, grp, CFG_SCAN_INTERVAL,
                                        QVariantUInt(DEF_SCAN_INTERVAL)))]

\* lines 37-50 with the setters of lines 43-49 skipped for a cached record.
loadPath_CacheWins(s, object, path) ==
    IF path \in DOMAIN object
    THEN FsIndexPathFromJson(object[path])
    ELSE loadPath_Fresh(s, object, path)

\* lines 37-50: the Indexed Path of one configured path
loadPath(s, object, path) ==
    LET p == IF path \in DOMAIN object
             THEN FsIndexPathFromJson(object[path])
             ELSE FsIndexPath(path)
        grp == normalizedKey(path)
    IN  [p EXCEPT
            !.followSymlinks = toBool(storeValue(s, grp, CFG_FOLLOW_SYMLINKS,
                                        QVariantBool(DEF_FOLLOW_SYMLINKS))),
            !.indexHidden = toBool(storeValue(s, grp, CFG_INDEX_HIDDEN,
                                        QVariantBool(DEF_INDEX_HIDDEN))),
            !.nameFilters = toStringList(storeValue(s, grp, CFG_NAME_FILTERS,
                                        QVariantList(DEF_NAME_FILTERS))),
            !.mimeFilters = toStringList(storeValue(s, grp, CFG_MIME_FILTERS,
                                        QVariantList(DEF_MIME_FILTERS))),
            !.maxDepth = toUInt8(toUInt(storeValue(s, grp, CFG_MAX_DEPTH,
                                        QVariantUInt(DEF_MAX_DEPTH)))),
            !.scanInterval = toUInt(storeValue(s, grp, CFG_SCAN_INTERVAL,
                                        QVariantUInt(DEF_SCAN_INTERVAL))),
            !.watchFilesystem = toBool(storeValue(s, grp, CFG_FS_WATCHES,
                                        QVariantBool(DEF_FS_WATCHES)))]

\* lines 36-53: the loop over the configured paths
RECURSIVE loadPaths(_, _, _, _, _)
loadPaths(s, object, paths, n, idx) ==
    IF n > Len(paths) THEN idx
    ELSE loadPaths(s, object, paths, n + 1,
                   addPath(idx, loadPath(s, object, paths[n])))

\* lines 51-52 without the delete.
deleteRejected_Kept(live, idx, p) == live

\* lines 51-52: if (!fs_index_.addPath(p)) delete p;
deleteRejected(live, idx, p) == IF p.path \in DOMAIN idx THEN live - 1 ELSE live

\* lines 36-53: the objects of the loop that are alive after it (line 39 or
\* 41 allocates one for every path of the list)
RECURSIVE liveAfter(_, _, _, _, _, _)
liveAfter(s, object, paths, n, idx, live) ==
    IF n > Len(paths) THEN live
    ELSE LET p == loadPath(s, object, paths[n])
         IN  liveAfter(s, object, paths, n + 1, addPath(idx, p),
                       deleteRejected(live + 1, idx, p))

\* lines 75-83 with the settings of one path left unwritten but its depth.
savePath_DepthOnly(s, fsp) ==
    setValue(s, normalizedKey(fsp.path), CFG_MAX_DEPTH, QVariantUInt(fsp.maxDepth))

\* lines 75-83: the seven settings of one path, under the path's group
savePath(s, fsp) ==
    LET grp == normalizedKey(fsp.path)
        s1 == setValue(s, grp, CFG_NAME_FILTERS, QVariantList(fsp.nameFilters))
        s2 == setValue(s1, grp, CFG_MIME_FILTERS, QVariantList(fsp.mimeFilters))
        s3 == setValue(s2, grp, CFG_INDEX_HIDDEN, QVariantBool(fsp.indexHidden))
        s4 == setValue(s3, grp, CFG_FOLLOW_SYMLINKS, QVariantBool(fsp.followSymlinks))
        s5 == setValue(s4, grp, CFG_MAX_DEPTH, QVariantUInt(fsp.maxDepth))
        s6 == setValue(s5, grp, CFG_FS_WATCHES, QVariantBool(fsp.watchFilesystem))
    IN  setValue(s6, grp, CFG_SCAN_INTERVAL, QVariantUInt(fsp.scanInterval))

\* the roots of the index in the order of the map
rootList(idx) == SelectSeq(AllRoots, LAMBDA r : r \in DOMAIN idx)

RECURSIVE savePaths(_, _, _, _)
savePaths(s, idx, roots, n) ==
    IF n > Len(roots) THEN s
    ELSE savePaths(savePath(s, idx[roots[n]]), idx, roots, n + 1)

\* lines 70-86: the settings of every path, then the list of the paths
persist(s, idx) ==
    setValue(savePaths(s, idx, rootList(idx), 1), <<>>, CFG_PATHS,
             QVariantList(rootList(idx)))

\* lines 73, 84: the document of the cache file
document(idx) == [r \in DOMAIN idx |-> toJson(idx[r])]

\* The configuration of the index: every root with its seven settings.
config(idx) ==
    [r \in DOMAIN idx |->
        <<idx[r].nameFilters, idx[r].mimeFilters, idx[r].indexHidden,
          idx[r].followSymlinks, idx[r].maxDepth, idx[r].scanInterval,
          idx[r].watchFilesystem>>]

NoSaved == [present |-> FALSE, paths |-> NoPaths]
Saved(idx) == [present |-> TRUE, paths |-> config(idx)]

-----------------------------------------------------------------------------
(* The files plugin: startup, the configuration surface, shutdown           *)

BookmarksUnused ==
    /\ fs = <<>>
    /\ w_pc = "idle"
    /\ w_paths = <<>>
    /\ w_i = 1
    /\ w_raced = FALSE
    /\ results = <<>>
    /\ abort = FALSE
    /\ w_ret = <<>>
    /\ pc = "unused"
    /\ settings = NoSettings
    /\ s0 = NoSettings
    /\ discovered = <<>>
    /\ paths_ = <<>>
    /\ index_hostname_ = FALSE
    /\ bookmarks_ = <<>>
    /\ index = <<>>
    /\ status = NoStatus
    /\ file_system_watcher_ = {}
    /\ ops = 0

\* lines 26-54: Plugin::Plugin
F_Construct ==
    /\ f_pc = "down"
    /\ f_runs < MaxRuns
    /\ LET paths == toStringList(storeValue(f_settings, <<>>, CFG_PATHS,
                                            QVariantList(<<>>)))
       IN  /\ fs_index_' = loadPaths(f_settings, readCache(cache), paths, 1, NoPaths)
           /\ f_live' = liveAfter(f_settings, readCache(cache), paths, 1, NoPaths,
                                  f_live)
    /\ scan' = update(fs_index_', {})
    /\ f_pc' = "up"
    /\ f_runs' = f_runs + 1
    /\ UNCHANGED <<parseVars, bmVars,
                   f_settings, cache, catalog, f_saved, f_ops>>

\* line 28 with updatedFinished emitted at the end of every scan.
F_ScanFinished_EachScan ==
    /\ f_pc = "up"
    /\ \E root \in scan :
          /\ scan' = scan \ {root}
          /\ fs_index_' = [fs_index_ EXCEPT ![root].entries = "scanned"]
          /\ catalog' = DOMAIN fs_index_
    /\ UNCHANGED <<parseVars, bmVars,
                   f_pc, f_settings, cache, f_saved, f_ops, f_runs, f_live>>

\* line 28: a scan of the batch ends; after the last one FsIndex emits
\* updatedFinished and the plugin calls updateIndex()
F_ScanFinished ==
    /\ f_pc = "up"
    /\ \E root \in scan :
          /\ scan' = scan \ {root}
          /\ fs_index_' = [fs_index_ EXCEPT ![root].entries = "scanned"]
          /\ catalog' = IF scan' = {} THEN DOMAIN fs_index_ ELSE catalog
    /\ UNCHANGED <<parseVars, bmVars,
                   f_pc, f_settings, cache, f_saved, f_ops, f_runs,
                   f_live>>

\* line 61: the action of the item "Update index"
F_UpdateItem ==
    /\ f_pc = "up"
    /\ f_ops < MaxFileOps
    /\ scan' = update(fs_index_, scan)
    /\ f_ops' = f_ops + 1
    /\ UNCHANGED <<parseVars, bmVars,
                   f_pc, f_settings, cache, fs_index_, catalog, f_saved, f_runs,
                   f_live>>

\* The configuration surface changes the index, writes the settings and
\* starts a scan.
Changed(idx) ==
    /\ f_pc = "up"
    /\ f_ops < MaxFileOps
    /\ fs_index_' = idx
    /\ f_settings' = persist(f_settings, idx)
    /\ scan' = update(idx, scan \cap DOMAIN idx)
    /\ f_saved' = NoSaved
    /\ f_ops' = f_ops + 1
    /\ f_live' = Cardinality(DOMAIN idx)
    /\ UNCHANGED <<parseVars, bmVars, f_pc, cache, catalog, f_runs>>

F_AddPath ==
    /\ f_pc = "up"
    /\ \E path \in Roots : Changed(addPath(fs_index_, FsIndexPath(path)))

F_RemovePath ==
    /\ f_pc = "up"
    /\ \E root \in DOMAIN fs_index_ : Changed(removePath(fs_index_, root))

NameFilterChoices == {<<>>, <<"*.tmp">>, <<".git", "*.o">>}
MimeFilterChoices == {<<>>, <<"text/*">>}
MaxDepthChoices == {0, 3, 255}
ScanIntervalChoices == {0, 30}

\* The setters of an Indexed Path.
Settings(fsp) ==
    {[fsp EXCEPT !.nameFilters = x] : x \in NameFilterChoices}
    \cup {[fsp EXCEPT !.mimeFilters = x] : x \in MimeFilterChoices}
    \cup {[fsp EXCEPT !.indexHidden = x] : x \in BOOLEAN}
    \cup {[fsp EXCEPT !.followSymlinks = x] : x \in BOOLEAN}
    \cup {[fsp EXCEPT !.maxDepth = toUInt8(x)] : x \in MaxDepthChoices}
    \cup {[fsp EXCEPT !.scanInterval = x] : x \in ScanIntervalChoices}
    \cup {[fsp EXCEPT !.watchFilesystem = x] : x \in BOOLEAN}

F_SetField ==
    /\ f_pc = "up"
    /\ \E root \in DOMAIN fs_index_ :
          \E fsp \in Settings(fs_index_[root]) \ {fs_index_[root]} :
             Changed([fs_index_ EXCEPT ![root] = fsp])

\* lines 70-86: Plugin::~Plugin, the settings
F_Persist ==
    /\ f_pc = "up"
    /\ f_settings' = persist(f_settings, fs_index_)
    /\ f_saved' = Saved(fs_index_)
    /\ f_pc' = "persisted"
    /\ UNCHANGED <<parseVars, bmVars,
                   cache, fs_index_, scan, catalog, f_ops, f_runs,
                   f_live>>

\* lines 88, 93: file.open(QIODevice::WriteOnly) truncates the file, or
\* fails and is logged
F_Open ==
    /\ f_pc = "persisted"
    /\ \E ok \in BOOLEAN :
          IF ok THEN cache' = Empty /\ f_pc' = "opened"
          ELSE cache' = cache /\ f_pc' = "stored"
    /\ UNCHANGED <<parseVars, bmVars,
                   f_settings, fs_index_, scan, catalog, f_saved, f_ops, f_runs,
                   f_live>>

\* lines 90-91: file.write(...), file.close()
F_Write ==
    /\ f_pc = "opened"
    /\ cache' = Complete(document(fs_index_))
    /\ f_pc' = "stored"
    /\ UNCHANGED <<parseVars, bmVars,
                   f_settings, fs_index_, scan, catalog, f_saved, f_ops, f_runs,
                   f_live>>

\* The process ends between the open and the end of the write.
F_Interrupted ==
    /\ f_pc = "opened"
    /\ cache' \in {Empty, Partial}
    /\ f_pc' = "killed"
    /\ UNCHANGED <<parseVars, bmVars,
                   f_settings, fs_index_, scan, catalog, f_saved, f_ops, f_runs,
                   f_live>>

\* line 95: fs_index_.update()
F_Update ==
    /\ f_pc = "stored"
    /\ scan' = update(fs_index_, scan)
    /\ f_pc' = "updating"
    /\ UNCHANGED <<parseVars, bmVars,
                   f_settings, cache, fs_index_, catalog, f_saved, f_ops, f_runs,
                   f_live>>

\* line 96: the members are destroyed, the scans with them
F_Destroyed ==
    /\ f_pc = "updating"
    /\ fs_index_' = NoPaths
    /\ f_live' = 0
    /\ scan' = {}
    /\ f_pc' = "down"
    /\ UNCHANGED <<parseVars, bmVars,
                   f_settings, cache, catalog, f_saved, f_ops, f_runs>>

\* The store and the cache file a startup may find.
ExampleStore ==
    setValue(setValue(setValue(NoStore, <<>>, CFG_PATHS, QVariantList(<<"/home">>)),
                      <<"home">>, CFG_MAX_DEPTH, QVariantUInt(3)),
             <<"home">>, CFG_SCAN_INTERVAL, QVariantUInt(30))

RepeatedStore == setValue(NoStore, <<>>, CFG_PATHS, QVariantList(<<"/", "/home", "/">>))

ExampleCache ==
    Complete([r \in {"/home"} |-> toJson([FsIndexPath(r) EXCEPT !.maxDepth = 7])])

InitFiles ==
    /\ BookmarksUnused
    /\ f_pc = "down"
    /\ \E found \in {<<NoStore, Missing>>, <<ExampleStore, ExampleCache>>,
                      <<RepeatedStore, Partial>>} :
          f_settings = found[1] /\ cache = found[2]
    /\ fs_index_ = NoPaths
    /\ scan = {}
    /\ catalog = {}
    /\ f_saved = NoSaved
    /\ f_ops = 0
    /\ f_runs = 0
    /\ f_live = 0

NextFiles ==
    \/ F_Construct
    \/ F_ScanFinished
    \/ F_UpdateItem
    \/ F_AddPath
    \/ F_RemovePath
    \/ F_SetField
    \/ F_Persist
    \/ F_Open
    \/ F_Write
    \/ F_Interrupted
    \/ F_Update
    \/ F_Destroyed

SpecFiles == InitFiles /\ [][NextFiles]_vars

-----------------------------------------------------------------------------
(* What a bookmarks document holds, read off its text: the url nodes that a *)
(* chain of folder nodes links to a root, by their position.               *)

NodeType(n) ==
    IF n.kind = "obj" /\ HasKey(n.members, "type")
                      /\ LastWith(n.members, "type").v.kind = "str"
    THEN LastWith(n.members, "type").v.s ELSE "none"

NodeField(n, k) ==
    IF HasKey(n.members, k) /\ LastWith(n.members, k).v.kind = "str"
    THEN LastWith(n.members, k).v.s ELSE ""

NodeChildren(n) ==
    IF HasKey(n.members, "children") /\ LastWith(n.members, "children").v.kind = "arr"
    THEN LastWith(n.members, "children").v.items ELSE <<>>

\* positions (child indices from the node down) of the url nodes under n
RECURSIVE UrlPositions(_)
UrlPositions(n) ==
    IF NodeType(n) = "url" THEN {<<>>}
    ELSE IF NodeType(n) = "folder"
    THEN UNION {{<<i>> \o p : p \in UrlPositions(NodeChildren(n)[i])} :
                    i \in 1..Len(NodeChildren(n))}
    ELSE {}

RECURSIVE NodeAt(_, _)
NodeAt(n, p) == IF p = <<>> THEN n ELSE NodeAt(NodeChildren(n)[Head(p)], Tail(p))

RECURSIVE LexLess(_, _)
LexLess(p, q) ==
    IF q = <<>> THEN FALSE
    ELSE IF p = <<>> THEN TRUE
    ELSE IF Head(p) # Head(q) THEN Head(p) < Head(q)
    ELSE LexLess(Tail(p), Tail(q))

RECURSIVE InOrder(_)
InOrder(S) ==
    IF S = {} THEN <<>>
    ELSE LET first == CHOOSE p \in S : \A q \in S \ {p} : LexLess(p, q)
         IN <<first>> \o InOrder(S \ {first})

\* the members of the text's "roots" object, as written
DocRoots(text) ==
    IF text.kind = "obj" /\ HasKey(text.members, "roots")
                         /\ LastWith(text.members, "roots").v.kind = "obj"
    THEN LastWith(text.members, "roots").v.members ELSE <<>>

\* one item per reachable url node, the roots taken in the order of `roots`
ItemsUnder(roots) ==
    LET pos == InOrder(UNION {{<<r>> \o p : p \in UrlPositions(roots[r].v)} :
                                r \in 1..Len(roots)})
        node(p) == NodeAt(roots[Head(p)].v, Tail(p))
    IN [i \in 1..Len(pos) |->
           [id_ |-> NodeField(node(pos[i]), "guid"),
            name_ |-> NodeField(node(pos[i]), "name"),
            url_ |-> NodeField(node(pos[i]), "url")]]

\* a run over one readable file that ran to the end of the list
ParsedOneFile ==
    /\ w_pc = "returned"
    /\ Len(w_paths) = 1
    /\ w_i = 2
    /\ Readable(w_paths[1])

\* C4 as claimed: parseBookmarks yields one item per url node reachable from a
\* root through folder nodes, with the node's guid/name/url, in the order in
\* which the nodes are written in the document.
C4_DocumentOrder ==
    ParsedOneFile => w_ret = ItemsUnder(DocRoots(TextOf(fs[w_paths[1]].json)))

\* C4 as amended: parseBookmarks yields one item per url node reachable from a
\* root through folder nodes, with the node's guid/name/url; the roots are
\* taken in ascending order of their keys, the nodes under one root in the
\* order in which they are written; nodes of another or of no type yield
\* nothing and their children are not visited; the example document yields
\* exactly the item (g1, Example, http://example.com).
C4_KeyOrder ==
    ParsedOneFile =>
       /\ w_ret = ItemsUnder(SortMembers(DocRoots(TextOf(fs[w_paths[1]].json))))
       /\ fs[w_paths[1]].json = ExampleDoc =>
             w_ret = <<[id_ |-> "g1", name_ |-> "Example",
                        url_ |-> "http://example.com"]>>

\* C4's case: the two-root document parsed, its nested url node found and the
\* root "bookmark_bar" ahead of the root "other".
C4_Witness ==
    /\ ParsedOneFile
    /\ fs[w_paths[1]].json = TwoRootsDoc
    /\ Len(w_ret) = 3
    /\ w_ret[1].id_ = "g3" /\ w_ret[2].id_ = "g2" /\ w_ret[3].id_ = "g1"

\* C5: the flag is looked at only before a file (at the return the local
\* vector holds the whole of every file begun); a run that sees the flag set before file k, the first included,
\* returns the empty list, whatever files 1..k-1 gave; a run that never sees
\* it set returns the items of all readable files.
C5_Abort ==
    w_pc = "returned" =>
       /\ results = ParseFrom(SubSeq(w_paths, 1, w_i - 1), 1, <<>>)
       /\ w_i <= Len(w_paths) => abort /\ w_ret = <<>>
       /\ w_i > Len(w_paths) => w_ret = ParseFrom(w_paths, 1, <<>>)

\* C5's case: the flag is seen set before a file k > 1, after the earlier
\* files gave items, and the returned list is empty.
C5_Witness ==
    /\ w_pc = "returned"
    /\ 1 < w_i /\ w_i <= Len(w_paths)
    /\ results # <<>>
    /\ w_ret = <<>>

\* C8: a run that reaches the end of the list returns what parseBookmarks
\* returns on the list without its unreadable files.
C8_UnreadableSkipped ==
    (w_pc = "returned" /\ w_i > Len(w_paths)) =>
        w_ret = ParseFrom(SelectSeq(w_paths, Readable), 1, <<>>)

\* C8's case: an unreadable file between two files that both gave items.
C8_Witness ==
    /\ w_pc = "returned" /\ w_i > Len(w_paths)
    /\ Len(w_paths) = 3
    /\ Readable(w_paths[1]) /\ ~Readable(w_paths[2]) /\ Readable(w_paths[3])
    /\ ReadFile(w_paths[1], <<>>) # <<>>
    /\ ReadFile(w_paths[3], <<>>) # <<>>
    /\ Len(w_ret) = Len(ReadFile(w_paths[1], <<>>)) + Len(ReadFile(w_paths[3], <<>>))


-----------------------------------------------------------------------------
(* The bookmarks plugin: claims *)

\* the constructor has run and nothing was clicked since
JustConstructed == pc = "up" /\ ops = 0

\* C1: after the constructor, a store without the bookmarks_path key gives
\* the discovered files as the path list, written to the store; a store with
\* the key gives the stored list, and the store keeps it.
C1_Startup ==
    JustConstructed =>
        IF ~contains(s0, "bookmarks_path")
        THEN /\ paths_ = discovered
             /\ settings.bookmarks_path = Stored(discovered)
        ELSE /\ paths_ = s0.bookmarks_path.value
             /\ settings.bookmarks_path = s0.bookmarks_path

\* C2: a change made on the configuration surface is written to the store and
\* starts a parse run, so that once no run is in flight the bookmark list is
\* the parse of the current path list.
C2_MutationReparsed ==
    (pc = "up" /\ w_pc = "idle") =>
        /\ bookmarks_ = ParseFrom(paths_, 1, <<>>)
        /\ contains(settings, "bookmarks_path") =>
              settings.bookmarks_path.value = paths_

\* C3: every configured source file that exists is registered with the
\* file-change watcher.
C3_SourcesWatched ==
    pc = "up" => \A p \in Range(paths_) : Readable(p) => p \in file_system_watcher_

\* C6: indexItems() gives, per bookmark, an entry keyed by its title and, if
\* and only if indexHostname is set, a second entry keyed by the host of its
\* URL, both holding that bookmark; |bookmarks| entries without the flag,
\* twice as many with it, none holding anything but a current bookmark.
C6_IndexItems ==
    LET ii == indexItems(bookmarks_, index_hostname_)
        n == Len(bookmarks_)
    IN /\ Len(ii) = IF index_hostname_ THEN 2 * n ELSE n
       /\ \A b \in 1..n :
             IF index_hostname_
             THEN /\ ii[2 * b - 1] = [item |-> bookmarks_[b],
                                      string |-> bookmarks_[b].name_]
                  /\ ii[2 * b] = [item |-> bookmarks_[b],
                                  string |-> QUrlHost(bookmarks_[b].url_)]
             ELSE ii[b] = [item |-> bookmarks_[b], string |-> bookmarks_[b].name_]
       /\ \A k \in 1..Len(ii) : ii[k].item \in Range(bookmarks_)

\* C6's case: the flag set, several bookmarks, and the published index holding
\* a bookmark under its title and under its host.
C6_Witness ==
    /\ index_hostname_
    /\ Len(bookmarks_) >= 3
    /\ Len(index) = 2 * Len(bookmarks_)
    /\ \E k \in 1..Len(index) :
          index[k].string = "en.wikipedia.org" /\ index[k].item.name_ = "Wiki"
    /\ \E k \in 1..Len(index) :
          index[k].string = "Wiki" /\ index[k].item.name_ = "Wiki"

\* C7: the step that adopts a finished run makes the bookmark list that run's
\* result, whole, and hands the host the index items of that result.
C7_FinishReplaces ==
    [][(w_pc = "returned" /\ w_pc' = "idle") =>
          /\ bookmarks_' = w_ret
          /\ index' = indexItems(w_ret, index_hostname_)]_vars

\* C7's case: a finished run has replaced a non-empty list by a different one
\* and the host holds the new list's items.
C7_Witness ==
    /\ pc = "up" /\ w_pc = "idle"
    /\ status.present /\ status.n > 0
    /\ Len(bookmarks_) > status.n
    /\ bookmarks_ = w_ret
    /\ Len(index) >= Len(bookmarks_)


-----------------------------------------------------------------------------
(* The files plugin: persistence *)

\* C9: shutdown persistence followed by startup loading against the same
\* store and cache file gives an index with the roots the shutdown saw and,
\* for every root, the same name filters, mime filters, indexHidden,
\* followSymlinks, maxDepth, scanInterval and watchFilesystem.
C9_RoundTrip ==
    (f_pc = "up" /\ f_saved.present) => config(fs_index_) = f_saved.paths

\* A restart after a complete shutdown that brought back the root /home with
\* maxDepth 3, scanInterval 30 and the empty list of name filters the user
\* had set.
C9_Witness ==
    /\ f_pc = "up"
    /\ f_saved.present
    /\ f_runs = 2
    /\ f_ops > 0
    /\ "/home" \in DOMAIN fs_index_
    /\ fs_index_["/home"].maxDepth = 3
    /\ fs_index_["/home"].scanInterval = 30
    /\ fs_index_["/home"].nameFilters = <<>>

\* C10: the shutdown write of the cache file is atomic: whenever the file
\* changes while the plugin shuts down, it changes from the previous
\* document to the complete new one, and is never left empty or partial.
C10_AtomicWrite ==
    [][(f_pc \in {"up", "persisted", "opened", "stored"} /\ cache' # cache)
          => cache' = Complete(document(fs_index_))]_vars


-----------------------------------------------------------------------------
(* The files plugin: startup *)

\* The list of root paths the settings store holds.
StoredRoots == toStringList(storeValue(f_settings, <<>>, CFG_PATHS, QVariantList(<<>>)))

\* C11: while the files plugin is up, the index holds one Indexed Path per
\* root, under its own root, for exactly the roots of the configured list
\* (however often the list names one), and no Indexed Path object is alive
\* but those of the index: the one a rejected addPath was given is deleted.
C11_OnePerRoot ==
    f_pc = "up" =>
        /\ \A r \in DOMAIN fs_index_ : fs_index_[r].path = r
        /\ DOMAIN fs_index_ = Range(StoredRoots)
        /\ f_live = Cardinality(DOMAIN fs_index_)

\* A startup over a list that names "/" twice.
C11_Witness ==
    /\ f_pc = "up"
    /\ f_runs = 1
    /\ f_ops = 0
    /\ Len(StoredRoots) > Cardinality(Range(StoredRoots))
    /\ DOMAIN fs_index_ = {"/", "/home"}

\* C12: a startup gives every root of the configured list an Indexed Path,
\* reconstructed from the record the cache document holds under that path
\* if there is one, fresh otherwise (also when the cache file is missing or
\* is no document), and then starts a scan of all the roots.
C12_CacheOrFresh ==
    [][(f_pc = "down" /\ f_pc' = "up") =>
          /\ \A i \in 1..Len(StoredRoots) :
                /\ StoredRoots[i] \in DOMAIN fs_index_'
                /\ fs_index_'[StoredRoots[i]].entries =
                      IF cache.state = "complete" /\ StoredRoots[i] \in DOMAIN cache.doc
                      THEN "cached" ELSE "none"
          /\ scan' = DOMAIN fs_index_']_vars

\* A second startup that found a record for one root and none for the
\* other, the shutdown before it having failed to write the cache file.
C12_Witness ==
    /\ f_pc = "up"
    /\ f_runs = 2
    /\ f_saved.present
    /\ scan = DOMAIN fs_index_
    /\ cache.state = "complete"
    /\ "/home" \in DOMAIN fs_index_ /\ "/home" \in DOMAIN cache.doc
    /\ fs_index_["/home"].entries = "cached"
    /\ "/" \in DOMAIN fs_index_ /\ "/" \notin DOMAIN cache.doc
    /\ fs_index_["/"].entries = "none"

C17_NoScanAfterPersistence ==
    [][(f_pc \in {"stored", "updating"}) => (scan' \subseteq scan)]_vars

\* What the store holds under a key of a root's group, or the default.
StoredFlag(root, key, def) ==
    IF normalizedKey(root) \o <<key>> \in DOMAIN f_settings
    THEN f_settings[normalizedKey(root) \o <<key>>].v = <<"true">>
    ELSE def

StoredNumber(root, key, def) ==
    IF normalizedKey(root) \o <<key>> \in DOMAIN f_settings
    THEN f_settings[normalizedKey(root) \o <<key>>].v[1]
    ELSE def

StoredList(root, key, def) ==
    IF normalizedKey(root) \o <<key>> \in DOMAIN f_settings
    THEN f_settings[normalizedKey(root) \o <<key>>].v
    ELSE def

\* C18: a startup leaves every Indexed Path with the seven settings the
\* store holds under the root's group, or with the default (false, false,
\* [.DS_Store], [inode/directory, application/*], 100, 15, false) for a key
\* the store lacks, whatever the cached record of the root held.
C18_SettingsWin ==
    [][(f_pc = "down" /\ f_pc' = "up") =>
          \A r \in DOMAIN fs_index_' :
             /\ fs_index_'[r].followSymlinks = StoredFlag(r, "followSymlinks", FALSE)
             /\ fs_index_'[r].indexHidden = StoredFlag(r, "indexhidden", FALSE)
             /\ fs_index_'[r].nameFilters = StoredList(r, "nameFilters", <<".DS_Store">>)
             /\ fs_index_'[r].mimeFilters =
                   StoredList(r, "mimeFilters", <<"inode/directory", "application/*">>)
             /\ fs_index_'[r].maxDepth = StoredNumber(r, "maxDepth", 100)
             /\ fs_index_'[r].scanInterval = StoredNumber(r, "scanInterval", 15)
             /\ fs_index_'[r].watchFilesystem =
                   StoredFlag(r, "useFileSystemWatches", FALSE)]_vars

\* The first startup has rebuilt /home from a cached record of maxDepth 7
\* and the store's maxDepth 3 and scanInterval 30 are in force, with the
\* defaults for the keys the store lacks.
C18_Witness ==
    /\ f_pc = "up"
    /\ f_runs = 1
    /\ f_ops = 0
    /\ cache.state = "complete"
    /\ "/home" \in DOMAIN cache.doc /\ cache.doc["/home"].maxDepth = 7
    /\ "/home" \in DOMAIN fs_index_
    /\ <<"home", "nameFilters">> \notin DOMAIN f_settings
    /\ fs_index_["/home"].maxDepth = 3
    /\ fs_index_["/home"].scanInterval = 30
    /\ fs_index_["/home"].nameFilters = <<".DS_Store">>

-----------------------------------------------------------------------------
(* The bookmarks plugin: the watcher, the status, the list of paths *)

C15_StatusCountsResult ==
    status.present => status.n = Len(bookmarks_)

\* C16: the list of paths is never modified while the background parse is
\* in its loop over it: the parse reads one version of the list.
C16_ConsistentList == ~w_raced

PathIndex(p) == CHOOSE i \in 1..Len(AllPaths) : AllPaths[i] = p

Sorted(list) ==
    \A i, j \in 1..Len(list) : i < j => PathIndex(list[i]) <= PathIndex(list[j])

NoDuplicate(list) == \A i, j \in 1..Len(list) : i # j => list[i] # list[j]

\* C19: a click on add or remove that changes the list of paths leaves it
\* sorted, without a duplicate and equal to the list in the settings store;
\* a click that adds or removes nothing (a path already in the list, a
\* cancelled dialog, no row selected) leaves the plugin running with the
\* list and the settings store as they were.
C19_AddRemove ==
    [][(ops' = ops + 1 /\ index_hostname_' = index_hostname_) =>
          IF Len(paths_') # Len(paths_)
          THEN /\ Sorted(paths_')
               /\ NoDuplicate(paths_')
               /\ settings'.bookmarks_path = Stored(paths_')
          ELSE /\ pc' = "up"
               /\ paths_' = paths_
               /\ settings' = settings]_vars

=============================================================================
